---- MODULE Spec2Model ----
(***************************************************************************)
(* Model of humanbound/redteam.py: the red teaming CLI that generates      *)
(* bot.json from two credentials and sequences aiandme invocations.        *)
(* One process run is main(): argparse, dispatch, the command's handler.   *)
(* Every external invocation is two steps (started, completed with an exit *)
(* code chosen by the engine); everything else in a handler is one step.   *)
(* Strings of the credential source are integers: Absent is a variable     *)
(* that is not set, Empty is "", 1..MaxCred are non-empty values.          *)
(* A shell command is the sequence of its words.                           *)
(***************************************************************************)
EXTENDS Integers, Sequences, FiniteSets, TLC

\* ---- bounds ----
MaxCred == 2
MaxRc == 1

\* ---- values ----
None == "None"
Absent == -1
Empty == 0
CredValues == {Absent, Empty} \cup (1..MaxCred)
ExitCodes == 0..MaxRc
NoFile == [exists |-> FALSE]
NoCmd == << >>

\* ---- constants of the program ----
BOT_CONFIG_FILE == "bot.json"

TEST_CATEGORIES ==
  [single |-> "aiandme/adversarial/owasp_single_turn",
   multi |-> "aiandme/adversarial/owasp_multi_turn",
   agentic |-> "aiandme/adversarial/owasp_agentic_multi_turn",
   behavioral |-> "aiandme/behavioral/behavioral"]

TEST_LEVELS == {"unit", "system", "acceptance"}

Commands == {"setup", "init", "test", "status", "logs", "posture", "guardrails", "full"}
TestFlags == {"single", "agentic", "behavioral", "adaptive"}
BadLevel == "bogus"
LevelInputs == {None, BadLevel} \cup TEST_LEVELS
FailOnInputs == {None, "high", "any"}
VendorInputs == {None, "aiandme", "openai"}
FormatInputs == {None, "json", "yaml"}
OutputInputs == {None, "out.json"}

VARIABLES argv, args, env, file, pc, inflight, cmd, trace
vars == <<argv, args, env, file, pc, inflight, cmd, trace>>

\* ---- load_config ----
FalsyNoneOnly(v) == v = Absent
Falsy(v) == v = Absent \/ v = Empty

ConfigOKUrlOnly(e) == ~Falsy(e.url)
ConfigOK(e) == ~Falsy(e.url) /\ ~Falsy(e.key)

\* ---- cmd_setup: the descriptor ----
bot_configSamePayload(url, key) ==
  [exists |-> TRUE,
   streaming |-> FALSE,
   thread_auth |-> [endpoint |-> Empty, headers |-> << >>, payload |-> << >>],
   thread_init |-> [endpoint |-> url,
                    headers |-> [ContentType |-> "application/json", xapikey |-> key],
                    payload |-> [input |-> "clear"]],
   chat_completion |-> [endpoint |-> url,
                        headers |-> [ContentType |-> "application/json", xapikey |-> key],
                        payload |-> [input |-> "clear"]]]

bot_config(url, key) ==
  [exists |-> TRUE,
   streaming |-> FALSE,
   thread_auth |-> [endpoint |-> Empty, headers |-> << >>, payload |-> << >>],
   thread_init |-> [endpoint |-> url,
                    headers |-> [ContentType |-> "application/json", xapikey |-> key],
                    payload |-> [input |-> "clear"]],
   chat_completion |-> [endpoint |-> url,
                        headers |-> [ContentType |-> "application/json", xapikey |-> key],
                        payload |-> [input |-> "$PROMPT"]]]

\* ---- events of one process run ----
Ev(kind, c, rc, reported, ret) ==
  [ev |-> kind, cmd |-> c, rc |-> rc, reported |-> reported, ret |-> ret]
StartEv(c) == Ev("start", c, 0, FALSE, FALSE)
EndEv(c, rc, reported, ret) == Ev("end", c, rc, reported, ret)
WriteEv == Ev("write", NoCmd, 0, FALSE, FALSE)
FatalEv(code) == Ev("fatal", NoCmd, code, TRUE, FALSE)

\* ---- argparse ----
BaseArgv(c) ==
  [command |-> c, flags |-> {}, level |-> None, fail_on |-> None,
   watch |-> FALSE, failed |-> FALSE, vendor |-> None, format |-> None,
   output |-> None]

ArgvSet ==
  {BaseArgv(c) : c \in {"setup", "init", "posture", "full"}}
  \cup {[BaseArgv("test") EXCEPT !.flags = fl, !.level = l, !.fail_on = fo] :
          fl \in SUBSET TestFlags, l \in LevelInputs, fo \in FailOnInputs}
  \cup {[BaseArgv("status") EXCEPT !.watch = w] : w \in BOOLEAN}
  \cup {[BaseArgv("logs") EXCEPT !.failed = f] : f \in BOOLEAN}
  \cup {[BaseArgv("guardrails") EXCEPT !.vendor = v, !.format = f, !.output = o] :
          v \in VendorInputs, f \in FormatInputs, o \in OutputInputs}

ArgparseNoGroup(a) == a.level \in TEST_LEVELS \cup {None}
ArgparseNoChoices(a) == Cardinality(a.flags) <= 1
ArgparseOK(a) ==
  /\ Cardinality(a.flags) <= 1
  /\ a.level \in TEST_LEVELS \cup {None}

Default(v, d) == IF v = None THEN d ELSE v

NamespaceVendorOpenai(a) ==
  [command |-> a.command,
   single |-> "single" \in a.flags,
   agentic |-> "agentic" \in a.flags,
   behavioral |-> "behavioral" \in a.flags,
   adaptive |-> "adaptive" \in a.flags,
   level |-> Default(a.level, "unit"),
   fail_on |-> a.fail_on,
   watch |-> a.watch,
   failed |-> a.failed,
   vendor |-> Default(a.vendor, "openai"),
   format |-> Default(a.format, "json"),
   output |-> a.output]

Namespace(a) ==
  [command |-> a.command,
   single |-> "single" \in a.flags,
   agentic |-> "agentic" \in a.flags,
   behavioral |-> "behavioral" \in a.flags,
   adaptive |-> "adaptive" \in a.flags,
   level |-> Default(a.level, "unit"),
   fail_on |-> a.fail_on,
   watch |-> a.watch,
   failed |-> a.failed,
   vendor |-> Default(a.vendor, "aiandme"),
   format |-> Default(a.format, "json"),
   output |-> a.output]

NoArgs == Namespace(BaseArgv("none"))

\* ---- cmd_test: category and command line ----
CategoryAgenticFirst(a) ==
  IF a.agentic THEN TEST_CATEGORIES.agentic
  ELSE IF a.single THEN TEST_CATEGORIES.single
  ELSE IF a.behavioral THEN TEST_CATEGORIES.behavioral
  ELSE IF a.adaptive THEN TEST_CATEGORIES.multi
  ELSE TEST_CATEGORIES.multi

Category(a) ==
  IF a.single THEN TEST_CATEGORIES.single
  ELSE IF a.agentic THEN TEST_CATEGORIES.agentic
  ELSE IF a.behavioral THEN TEST_CATEGORIES.behavioral
  ELSE IF a.adaptive THEN TEST_CATEGORIES.multi
  ELSE TEST_CATEGORIES.multi

TestCmdNoFailOn(a) ==
  <<"aiandme", "test", "-e", BOT_CONFIG_FILE, "-t", Category(a), "-l", a.level, "--wait">>
  \o (IF a.adaptive THEN <<"--adaptive">> ELSE << >>)

TestCmd(a) ==
  <<"aiandme", "test", "-e", BOT_CONFIG_FILE, "-t", Category(a), "-l", a.level, "--wait">>
  \o (IF a.adaptive THEN <<"--adaptive">> ELSE << >>)
  \o (IF a.fail_on # None THEN <<"--fail-on=", a.fail_on>> ELSE << >>)

\* ---- the command line issued at each call of run() ----
WhoamiCmd == <<"aiandme", "whoami">>

RunPcs ==
  {"login", "init_run", "test_run", "status_run", "logs_run", "posture_run",
   "guardrails_run", "full_init", "full_single", "full_multi", "full_posture",
   "full_logs"}

CmdAt(p, a, built) ==
  CASE p = "login" -> <<"aiandme", "login">>
    [] p \in {"init_run", "full_init"} -> <<"aiandme", "init", "-e", BOT_CONFIG_FILE>>
    [] p = "test_run" -> built
    [] p = "status_run" ->
         <<"aiandme", "status">> \o (IF a.watch THEN <<"--watch">> ELSE << >>)
    [] p = "logs_run" ->
         <<"aiandme", "logs">> \o (IF a.failed THEN <<"--verdict", "fail">> ELSE << >>)
    [] p \in {"posture_run", "full_posture"} -> <<"aiandme", "posture">>
    [] p = "guardrails_run" ->
         <<"aiandme", "guardrails", "--vendor", a.vendor, "--format", a.format>>
         \o (IF a.output # None THEN <<"-o", a.output>> ELSE << >>)
    [] p = "full_single" ->
         <<"aiandme", "test", "-e", BOT_CONFIG_FILE, "-t", TEST_CATEGORIES.single,
           "-l", "unit", "--wait">>
    [] p = "full_multi" ->
         <<"aiandme", "test", "-e", BOT_CONFIG_FILE, "-t", TEST_CATEGORIES.multi,
           "-l", "unit", "--wait">>
    [] p = "full_logs" -> <<"aiandme", "logs", "--verdict", "fail">>

CheckAt(p) == p \notin {"full_single", "full_multi", "full_posture", "full_logs"}

\* ---- run(): what a completed invocation prints and returns ----
RunReported(check, rc) == check /\ rc # 0
RunRet(check, rc) == ~(check /\ rc # 0)

\* ---- ensure_logged_in: the condition of the login ----
NeedsLoginInverted(rc) == rc = 0
NeedsLogin(rc) == rc # 0

\* ---- control flow between the steps ----
EntryPcNoGuard(c) ==
  CASE c \in {"setup", "full"} -> "setup"
    [] c \in {"init", "test"} -> "ensure_bot"
    [] OTHER -> "guard"

EntryPc(c) ==
  CASE c \in {"setup", "full"} -> "setup"
    [] OTHER -> "guard"

AfterSetup(c) == IF c = "full" THEN "guard" ELSE "exit0"

AfterGuardNoEnsure(c) ==
  CASE c = "init" -> "init_run"
    [] c = "test" -> "test_build"
    [] c = "status" -> "status_run"
    [] c = "logs" -> "logs_run"
    [] c = "posture" -> "posture_run"
    [] c = "guardrails" -> "guardrails_run"
    [] c = "full" -> "full_init"

AfterGuard(c) ==
  CASE c \in {"init", "test"} -> "ensure_bot"
    [] c = "status" -> "status_run"
    [] c = "logs" -> "logs_run"
    [] c = "posture" -> "posture_run"
    [] c = "guardrails" -> "guardrails_run"
    [] c = "full" -> "full_init"

AfterEnsure(c) == IF c = "init" THEN "init_run" ELSE "test_build"

AfterRunAbortOnFailure(p, c, ret) ==
  IF ~ret THEN "exit1"
  ELSE CASE p = "login" -> AfterGuard(c)
         [] p = "full_init" -> "full_single"
         [] p = "full_single" -> "full_multi"
         [] p = "full_multi" -> "full_posture"
         [] p = "full_posture" -> "full_logs"
         [] OTHER -> "exit0"

AfterRunRetry(p, c, ret) ==
  IF ~ret THEN p
  ELSE CASE p = "login" -> AfterGuard(c)
         [] p = "full_init" -> "full_single"
         [] p = "full_single" -> "full_multi"
         [] p = "full_multi" -> "full_posture"
         [] p = "full_posture" -> "full_logs"
         [] OTHER -> "exit0"

AfterRun(p, c, ret) ==
  CASE p = "login" -> AfterGuard(c)
    [] p = "full_init" -> "full_single"
    [] p = "full_single" -> "full_multi"
    [] p = "full_multi" -> "full_posture"
    [] p = "full_posture" -> "full_logs"
    [] OTHER -> "exit0"

Halted == pc \in {"exit0", "exit1", "exit2"}
ExitStatus == CASE pc = "exit0" -> 0 [] pc = "exit1" -> 1 [] pc = "exit2" -> 2 [] OTHER -> -1

\* ---- the state after construction: a process about to run main() ----
EnvSet == [url : CredValues, key : CredValues]
FileSet == {NoFile} \cup {bot_config(u, k) : u \in 1..MaxCred, k \in 1..MaxCred}

Init ==
  /\ argv \in ArgvSet
  /\ args = NoArgs
  /\ env \in EnvSet
  /\ file \in FileSet
  /\ pc = "parse"
  /\ inflight = NoCmd
  /\ cmd = NoCmd
  /\ trace = << >>

\* main: parse_args and dispatch
Parse ==
  /\ pc = "parse"
  /\ IF ArgparseOK(argv)
       THEN /\ args' = Namespace(argv)
            /\ pc' = EntryPc(argv.command)
            /\ trace' = trace
       ELSE /\ args' = args
            /\ pc' = "exit2"
            /\ trace' = Append(trace, FatalEv(2))
  /\ UNCHANGED <<argv, env, file, inflight, cmd>>

CmdSetupKeepExisting ==
  /\ pc = "setup"
  /\ IF ConfigOK(env)
       THEN /\ file' = IF file = NoFile THEN bot_config(env.url, env.key) ELSE file
            /\ trace' = Append(trace, WriteEv)
            /\ pc' = AfterSetup(args.command)
       ELSE /\ file' = file
            /\ trace' = Append(trace, FatalEv(1))
            /\ pc' = "exit1"
  /\ UNCHANGED <<argv, args, env, inflight, cmd>>

\* cmd_setup as the `setup` command and as step 1 of `full`
CmdSetup ==
  /\ pc = "setup"
  /\ IF ConfigOK(env)
       THEN /\ file' = bot_config(env.url, env.key)
            /\ trace' = Append(trace, WriteEv)
            /\ pc' = AfterSetup(args.command)
       ELSE /\ file' = file
            /\ trace' = Append(trace, FatalEv(1))
            /\ pc' = "exit1"
  /\ UNCHANGED <<argv, args, env, inflight, cmd>>

\* ensure_logged_in: the whoami probe is started
ProbeStart ==
  /\ pc = "guard"
  /\ inflight = NoCmd
  /\ inflight' = WhoamiCmd
  /\ trace' = Append(trace, StartEv(WhoamiCmd))
  /\ pc' = "probe_wait"
  /\ UNCHANGED <<argv, args, env, file, cmd>>

\* ensure_logged_in: the probe completes; its exit code decides the login
ProbeComplete ==
  /\ pc = "probe_wait"
  /\ \E rc \in ExitCodes :
       /\ trace' = Append(trace, EndEv(WhoamiCmd, rc, FALSE, TRUE))
       /\ pc' = IF NeedsLogin(rc) THEN "login" ELSE AfterGuard(args.command)
  /\ inflight' = NoCmd
  /\ UNCHANGED <<argv, args, env, file, cmd>>

EnsureBotJsonAlways ==
  /\ pc = "ensure_bot"
  /\ IF ConfigOK(env)
       THEN /\ file' = bot_config(env.url, env.key)
            /\ trace' = Append(trace, WriteEv)
            /\ pc' = AfterEnsure(args.command)
       ELSE /\ file' = file
            /\ trace' = Append(trace, FatalEv(1))
            /\ pc' = "exit1"
  /\ UNCHANGED <<argv, args, env, inflight, cmd>>

\* ensure_bot_json, with the cmd_setup it calls when bot.json is missing
EnsureBotJson ==
  /\ pc = "ensure_bot"
  /\ IF file = NoFile
       THEN IF ConfigOK(env)
              THEN /\ file' = bot_config(env.url, env.key)
                   /\ trace' = Append(trace, WriteEv)
                   /\ pc' = AfterEnsure(args.command)
              ELSE /\ file' = file
                   /\ trace' = Append(trace, FatalEv(1))
                   /\ pc' = "exit1"
       ELSE /\ file' = file
            /\ trace' = trace
            /\ pc' = AfterEnsure(args.command)
  /\ UNCHANGED <<argv, args, env, inflight, cmd>>

\* cmd_test: category, level check and command line
TestBuild ==
  /\ pc = "test_build"
  /\ IF args.level \notin TEST_LEVELS
       THEN /\ cmd' = cmd
            /\ trace' = Append(trace, FatalEv(1))
            /\ pc' = "exit1"
       ELSE /\ cmd' = TestCmd(args)
            /\ trace' = trace
            /\ pc' = "test_run"
  /\ UNCHANGED <<argv, args, env, file, inflight>>

RunStartNoWait ==
  /\ pc \in RunPcs
  /\ inflight' = CmdAt(pc, args, cmd)
  /\ trace' = Append(trace, StartEv(CmdAt(pc, args, cmd)))
  /\ pc' = AfterRun(pc, args.command, TRUE)
  /\ UNCHANGED <<argv, args, env, file, cmd>>

\* run(): the shell command is started
RunStart ==
  /\ pc \in RunPcs
  /\ inflight = NoCmd
  /\ inflight' = CmdAt(pc, args, cmd)
  /\ trace' = Append(trace, StartEv(CmdAt(pc, args, cmd)))
  /\ UNCHANGED <<argv, args, env, file, pc, cmd>>

\* run(): the shell command completes; the caller goes on
RunComplete ==
  /\ pc \in RunPcs
  /\ inflight # NoCmd
  /\ \E rc \in ExitCodes :
       LET check == CheckAt(pc)
           ret == RunRet(check, rc)
       IN /\ trace' = Append(trace, EndEv(inflight, rc, RunReported(check, rc), ret))
          /\ pc' = AfterRun(pc, args.command, ret)
  /\ inflight' = NoCmd
  /\ UNCHANGED <<argv, args, env, file, cmd>>

\* the process is gone: its memory is dropped, bot.json stays on disk
ProcessExit ==
  /\ Halted
  /\ argv' = BaseArgv("none")
  /\ args' = NoArgs
  /\ env' = [url |-> Absent, key |-> Absent]
  /\ pc' = "idle"
  /\ inflight' = NoCmd
  /\ cmd' = NoCmd
  /\ trace' = << >>
  /\ UNCHANGED file

\* the user starts the program again, with any arguments and any .env
NewRun ==
  /\ pc = "idle"
  /\ argv' \in ArgvSet
  /\ env' \in EnvSet
  /\ pc' = "parse"
  /\ UNCHANGED <<args, file, inflight, cmd, trace>>

Next ==
  \/ Parse
  \/ CmdSetup
  \/ ProbeStart
  \/ ProbeComplete
  \/ EnsureBotJson
  \/ TestBuild
  \/ RunStart
  \/ RunComplete
  \/ ProcessExit
  \/ NewRun

Spec == Init /\ [][Next]_vars

\* ---- cmd_test applied to every namespace, as a caller of the function would ----
NamespaceSet ==
  {[NoArgs EXCEPT !.command = "test", !.single = s, !.agentic = g, !.behavioral = b,
                  !.adaptive = d, !.level = l, !.fail_on = fo] :
     s \in BOOLEAN, g \in BOOLEAN, b \in BOOLEAN, d \in BOOLEAN,
     l \in TEST_LEVELS \cup {BadLevel}, fo \in FailOnInputs}

RouterInit ==
  /\ argv = BaseArgv("test")
  /\ args \in NamespaceSet
  /\ env \in EnvSet
  /\ file \in FileSet \ {NoFile}
  /\ pc = "test_build"
  /\ inflight = NoCmd
  /\ cmd = NoCmd
  /\ trace = << >>

RouterNext == TestBuild

RouterSpec == RouterInit /\ [][RouterNext]_vars

\* ---- vocabulary of the properties ----
CredMissing == env.url \in {Absent, Empty} \/ env.key \in {Absent, Empty}
Running == pc # "idle"
Started(i) == trace[i].ev = "start"
Ended(i) == trace[i].ev = "end"
NoInvocationYet ==
  /\ inflight = NoCmd
  /\ \A i \in DOMAIN trace : trace[i].ev \notin {"start", "end"}
NoWriteYet == \A i \in DOMAIN trace : trace[i].ev # "write"
IsPrefix(s, t) == Len(s) <= Len(t) /\ \A i \in DOMAIN s : s[i] = t[i]

\* the steps of `full` as the user sees them: the write of bot.json and every
\* completed invocation other than the optional login
StepLabel(e) == IF e.ev = "write" THEN <<"write", BOT_CONFIG_FILE>> ELSE e.cmd
IsStep(e) == e.ev = "write" \/ (e.ev = "end" /\ e.cmd # <<"aiandme", "login">>)
RECURSIVE StepsOf(_)
StepsOf(t) ==
  IF t = << >> THEN << >>
  ELSE IF IsStep(Head(t)) THEN <<StepLabel(Head(t))>> \o StepsOf(Tail(t))
  ELSE StepsOf(Tail(t))
RECURSIVE StartsOf(_)
StartsOf(t) ==
  IF t = << >> THEN << >>
  ELSE IF Head(t).ev = "start" /\ Head(t).cmd # <<"aiandme", "login">>
         THEN <<Head(t).cmd>> \o StartsOf(Tail(t))
  ELSE StartsOf(Tail(t))

FullExpected ==
  << <<"write", "bot.json">>,
     <<"aiandme", "whoami">>,
     <<"aiandme", "init", "-e", "bot.json">>,
     <<"aiandme", "test", "-e", "bot.json", "-t",
       "aiandme/adversarial/owasp_single_turn", "-l", "unit", "--wait">>,
     <<"aiandme", "test", "-e", "bot.json", "-t",
       "aiandme/adversarial/owasp_multi_turn", "-l", "unit", "--wait">>,
     <<"aiandme", "posture">>,
     <<"aiandme", "logs", "--verdict", "fail">> >>

EndRcOf(op) ==
  {trace[i].rc : i \in {j \in DOMAIN trace : Ended(j) /\ trace[j].cmd[2] = op}}

\* C1: in `full` with both credentials present, the steps (write of bot.json,
\* whoami, init, single-turn test, multi-turn test, posture, failed logs) happen
\* each once and in this order whatever the exit codes: at every moment the
\* steps done are a prefix of that list, and when the process has ended they
\* are the whole list.
C1_FullStepsInOrder ==
  (argv.command = "full" /\ ~CredMissing /\ Running) =>
     /\ IsPrefix(StepsOf(trace), FullExpected)
     /\ IsPrefix(StartsOf(trace), Tail(FullExpected))
     /\ Halted => StepsOf(trace) = FullExpected

C1_Witness ==
  /\ argv.command = "full"
  /\ pc = "exit0"
  /\ StepsOf(trace) = FullExpected
  /\ \E i, j \in DOMAIN trace :
       /\ Ended(i) /\ trace[i].cmd[2] = "init" /\ trace[i].rc # 0
       /\ Ended(j) /\ trace[j].cmd[2] = "test" /\ trace[j].rc # 0

\* C2: with a credential missing, no step changes bot.json, and a step that
\* would generate it (cmd_setup, or ensure_bot_json finding no file) ends the
\* process with the fatal credential error instead of writing.
C2_NoWriteWithoutCredentials ==
  [][(CredMissing /\ Running) =>
       /\ file' = file
       /\ (pc = "setup" \/ (pc = "ensure_bot" /\ file = NoFile)) =>
            (pc' = "exit1" /\ trace' = Append(trace, FatalEv(1)))]_vars

C2_Witness ==
  /\ argv.command = "full"
  /\ CredMissing
  /\ pc = "exit1"
  /\ file # NoFile
  /\ trace = <<FatalEv(1)>>

\* C3 as stated: for every subcommand, while a credential is missing nothing
\* has been invoked or written.
C3_Original ==
  (CredMissing /\ Running) => (NoInvocationYet /\ NoWriteYet)

\* C3 amended: with a credential missing, `setup` and `full` abort before any
\* invocation or write; `init` and `test` reach the credential error only after
\* the whoami probe and then have written nothing and not issued their own
\* invocation; `status`, `logs`, `posture` and `guardrails` never end with the
\* credential error.
C3_Amended ==
  (CredMissing /\ Running) =>
     /\ argv.command \in {"setup", "full"} =>
          (NoInvocationYet /\ NoWriteYet /\ pc \in {"parse", "setup", "exit1"})
     /\ (argv.command \in {"init", "test"} /\ pc = "exit1") =>
          /\ Len(trace) >= 3
          /\ trace[1] = StartEv(<<"aiandme", "whoami">>)
          /\ trace[Len(trace)] = FatalEv(1)
          /\ NoWriteYet
          /\ \A i \in DOMAIN trace :
               Started(i) => trace[i].cmd[2] \in {"whoami", "login"}
     /\ argv.command \in {"status", "logs", "posture", "guardrails"} => pc # "exit1"

C3_Witness ==
  /\ argv.command = "full"
  /\ env.url \in 1..MaxCred
  /\ env.key = Empty
  /\ pc = "exit1"
  /\ file = NoFile
  /\ NoInvocationYet

HasWord(c, w) == \E i \in DOMAIN c : c[i] = w
OnlyFlag(f) ==
  /\ args.single = (f = "single")
  /\ args.agentic = (f = "agentic")
  /\ args.behavioral = (f = "behavioral")
  /\ args.adaptive = (f = "adaptive")

\* C4: whenever cmd_test has built its command line, for any of the sixteen
\* flag combinations, the category after -t is decided by the precedence
\* single, agentic, behavioral, adaptive, default: single-turn if single is set,
\* else agentic if agentic is set, else behavioral if behavioral is set, else
\* multi-turn; adaptive alone gives multi-turn with --adaptive, and no flag
\* gives multi-turn without --adaptive.
C4_CategoryResolution ==
  pc = "test_run" =>
     /\ Len(cmd) >= 9
     /\ cmd[5] = "-t"
     /\ cmd[6] = (IF args.single THEN "aiandme/adversarial/owasp_single_turn"
                  ELSE IF args.agentic THEN "aiandme/adversarial/owasp_agentic_multi_turn"
                  ELSE IF args.behavioral THEN "aiandme/behavioral/behavioral"
                  ELSE "aiandme/adversarial/owasp_multi_turn")
     /\ OnlyFlag("single") => cmd[6] = "aiandme/adversarial/owasp_single_turn"
     /\ OnlyFlag("agentic") => cmd[6] = "aiandme/adversarial/owasp_agentic_multi_turn"
     /\ OnlyFlag("behavioral") => cmd[6] = "aiandme/behavioral/behavioral"
     /\ OnlyFlag("adaptive") =>
          (cmd[6] = "aiandme/adversarial/owasp_multi_turn" /\ HasWord(cmd, "--adaptive"))
     /\ OnlyFlag("none") =>
          (cmd[6] = "aiandme/adversarial/owasp_multi_turn" /\ ~HasWord(cmd, "--adaptive"))

C4_Witness ==
  /\ pc = "test_run"
  /\ args.single /\ args.agentic /\ args.behavioral /\ ~args.adaptive
  /\ cmd[6] = "aiandme/adversarial/owasp_single_turn"

\* C5: a `test` run whose --level is none of unit, system, acceptance never
\* gets past the parsing of its arguments: nothing is invoked (no whoami, no
\* login, no test), and the process ends with a non-zero exit status.
C5_BadLevelNoInvocation ==
  (Running /\ argv.command = "test"
     /\ argv.level \notin {None, "unit", "system", "acceptance"}) =>
     /\ NoInvocationYet
     /\ pc \in {"parse", "exit1", "exit2"}

C5_Witness ==
  /\ argv.command = "test"
  /\ argv.level = BadLevel
  /\ Cardinality(argv.flags) <= 1
  /\ pc = "exit2"
  /\ trace = <<FatalEv(2)>>

\* C6 as stated: when `test` was given --fail-on and its aiandme test
\* invocation exited non-zero, the process exits non-zero.
C6_FailOnExitsNonZero ==
  (argv.command = "test" /\ argv.fail_on # None /\ Halted
     /\ \E i \in DOMAIN trace :
          Ended(i) /\ trace[i].cmd[2] = "test" /\ trace[i].rc # 0)
  => ExitStatus # 0

\* C7 as stated: `full` always ends with exit status zero.
C7_FullAlwaysExitsZero ==
  (argv.command = "full" /\ Halted) => ExitStatus = 0

\* C7 amended: `full` ends with exit status zero whatever the exit codes of its
\* invocations exactly when both credentials are present; with a credential
\* missing it ends at step 1 with exit status 1.
C7_Amended ==
  (argv.command = "full" /\ Halted) =>
     /\ ~CredMissing => ExitStatus = 0
     /\ CredMissing => ExitStatus = 1

C7_Witness ==
  /\ argv.command = "full"
  /\ pc = "exit0"
  /\ \A i \in DOMAIN trace : Ended(i) => trace[i].rc # 0
  /\ Len(StepsOf(trace)) = 7

\* C8 as stated (for the invocations made through run()): every completed
\* invocation with a non-zero exit code was reported with its exit code and
\* returned the failure signal to its caller.
C8_FailuresReported ==
  \A i \in DOMAIN trace :
     (Ended(i) /\ trace[i].rc # 0 /\ trace[i].cmd # <<"aiandme", "whoami">>) =>
        (trace[i].reported /\ ~trace[i].ret)

IsWhoami(i) == trace[i].cmd = <<"aiandme", "whoami">>
IsLogin(i) == trace[i].cmd = <<"aiandme", "login">>
OwnOp(c) == IF c = "full" THEN "init" ELSE c

\* C9: in every command the whoami probe and the login are each started at most
\* once; the login is started exactly when the probe has completed non-zero,
\* right after it; whoami is never issued after the login; and once the login
\* has completed, with any exit code, the command goes on to its own
\* invocation: it ends with status 0 having issued it, the only other ending
\* being the credential error of init/test generating a missing bot.json.
C9_SessionGuard ==
  Running =>
     /\ Cardinality({i \in DOMAIN trace : Started(i) /\ IsWhoami(i)}) <= 1
     /\ Cardinality({i \in DOMAIN trace : Started(i) /\ IsLogin(i)}) <= 1
     /\ \A i \in DOMAIN trace :
          /\ (Ended(i) /\ IsWhoami(i) /\ trace[i].rc # 0) =>
               IF i = Len(trace) THEN pc = "login" /\ inflight = NoCmd
               ELSE trace[i + 1] = StartEv(<<"aiandme", "login">>)
          /\ (Ended(i) /\ IsWhoami(i) /\ trace[i].rc = 0) =>
               (pc # "login" /\ \A j \in DOMAIN trace : ~IsLogin(j))
          /\ (Started(i) /\ IsLogin(i)) =>
               (i > 1 /\ Ended(i - 1) /\ IsWhoami(i - 1) /\ trace[i - 1].rc # 0)
          /\ IsLogin(i) => \A j \in DOMAIN trace : j > i => ~IsWhoami(j)
          /\ (Ended(i) /\ IsLogin(i)) =>
               /\ pc # "exit2"
               /\ (i < Len(trace) /\ Started(i + 1)) =>
                    trace[i + 1].cmd[2] = OwnOp(argv.command)
               /\ pc = "exit0" =>
                    \E j \in DOMAIN trace :
                       j > i /\ Ended(j) /\ trace[j].cmd[2] = OwnOp(argv.command)
               /\ pc = "exit1" =>
                    /\ argv.command \in {"init", "test"}
                    /\ file = NoFile /\ CredMissing
                    /\ trace[Len(trace)] = FatalEv(1)

C9_Witness ==
  /\ argv.command = "posture"
  /\ pc = "exit0"
  /\ Len(trace) = 6
  /\ Ended(2) /\ IsWhoami(2) /\ trace[2].rc # 0
  /\ Ended(4) /\ IsLogin(4) /\ trace[4].rc # 0
  /\ trace[5] = StartEv(<<"aiandme", "posture">>)

\* C10: in init, test, status, logs, posture and guardrails the first thing that
\* happens is the whoami probe, and it has completed before bot.json is
\* generated (or its generation fails) and before any other invocation is
\* started; setup never invokes anything.
C10_ProbeFirst ==
  Running =>
     /\ argv.command \in {"init", "test", "status", "logs", "posture", "guardrails"} =>
          \A i \in DOMAIN trace :
             (\/ trace[i].ev = "write"
              \/ (trace[i].ev = "fatal" /\ trace[i].rc = 1)
              \/ (Started(i) /\ ~IsWhoami(i))) =>
                /\ trace[1] = StartEv(<<"aiandme", "whoami">>)
                /\ \E j \in DOMAIN trace : j < i /\ Ended(j) /\ IsWhoami(j)
     /\ argv.command = "setup" => NoInvocationYet

C10_Witness ==
  /\ argv.command = "init"
  /\ pc = "exit0"
  /\ trace[1] = StartEv(<<"aiandme", "whoami">>)
  /\ \E i \in DOMAIN trace : trace[i].ev = "write"
  /\ \E i \in DOMAIN trace : Started(i) /\ trace[i].cmd[2] = "init"

GuardedSix == {"init", "test", "status", "logs", "posture", "guardrails"}
StartsOfCmd(c) == {i \in DOMAIN trace : Started(i) /\ trace[i].cmd = c}
OwnStarts == {i \in DOMAIN trace : Started(i) /\ ~IsWhoami(i) /\ ~IsLogin(i)}

\* C11: within one process run no command line is started twice, whatever the
\* exit codes; init, test, status, logs, posture and guardrails start at most
\* one invocation besides whoami and login, it is the command's own, and a
\* run that ends with status 0 has started exactly one (a run that ends with
\* the credential error of the bot.json generation has started none).
C11_NoRetries ==
  Running =>
     /\ \A i \in DOMAIN trace : Started(i) => StartsOfCmd(trace[i].cmd) = {i}
     /\ \A i \in DOMAIN trace :
          (Ended(i) /\ i < Len(trace) /\ Started(i + 1)) => trace[i + 1].cmd # trace[i].cmd
     /\ argv.command \in GuardedSix =>
          /\ Cardinality(OwnStarts) <= 1
          /\ \A i \in OwnStarts : trace[i].cmd[2] = argv.command
          /\ pc = "exit0" => Cardinality(OwnStarts) = 1
          /\ pc = "exit1" => OwnStarts = {}

C11_Witness ==
  /\ argv.command = "status"
  /\ pc = "exit0"
  /\ Len(trace) = 6
  /\ \A i \in DOMAIN trace : Ended(i) => trace[i].rc # 0
  /\ Cardinality(OwnStarts) = 1

GuardrailsStarts == {i \in DOMAIN trace : Started(i) /\ trace[i].cmd[2] = "guardrails"}

\* C12: the guardrails invocation of a `guardrails` run given no flags is
\* exactly `aiandme guardrails --vendor aiandme --format json`; in every
\* guardrails invocation -o is present exactly when an output path was given,
\* and is then followed by that path.
C12_GuardrailsDefaults ==
  (Running /\ argv.command = "guardrails") =>
     \A i \in GuardrailsStarts :
        /\ (argv.vendor = None /\ argv.format = None /\ argv.output = None) =>
             trace[i].cmd = <<"aiandme", "guardrails", "--vendor", "aiandme",
                              "--format", "json">>
        /\ HasWord(trace[i].cmd, "-o") <=> (argv.output # None)
        /\ argv.output # None =>
             (Len(trace[i].cmd) = 8 /\ trace[i].cmd[7] = "-o"
                /\ trace[i].cmd[8] = argv.output)

C12_Witness ==
  /\ argv.command = "guardrails"
  /\ argv.vendor = None /\ argv.format = None /\ argv.output = None
  /\ pc = "exit0"
  /\ GuardrailsStarts # {}

\* C13: every write of bot.json with valid credentials gives a descriptor whose
\* thread_init payload is {"input": "clear"} and whose chat_completion payload
\* is {"input": "$PROMPT"}, whatever the url and key; streaming and thread_auth
\* are fixed too, and only the two endpoints (the url) and the two x-api-key
\* headers (the key) carry the credentials.
C13_FixedPayloads ==
  [][(Running /\ trace' = Append(trace, WriteEv)) =>
       /\ file'.thread_init.payload = [input |-> "clear"]
       /\ file'.chat_completion.payload = [input |-> "$PROMPT"]
       /\ file'.streaming = FALSE
       /\ file'.thread_auth = [endpoint |-> Empty, headers |-> << >>, payload |-> << >>]
       /\ file'.thread_init.endpoint = env.url
       /\ file'.chat_completion.endpoint = env.url
       /\ file'.thread_init.headers.xapikey = env.key
       /\ file'.chat_completion.headers.xapikey = env.key
       /\ file'.thread_init.headers.ContentType = "application/json"
       /\ file'.chat_completion.headers.ContentType = "application/json"
       /\ env.url \in 1..MaxCred /\ env.key \in 1..MaxCred]_vars

C13_Witness ==
  /\ argv.command = "setup"
  /\ pc = "exit0"
  /\ trace = <<WriteEv>>
  /\ env.url # env.key
  /\ file.thread_init.payload = [input |-> "clear"]
  /\ file.chat_completion.payload = [input |-> "$PROMPT"]
  /\ file.thread_init.endpoint = env.url

\* the descriptor the credentials u, k stand for, written out
DescriptorOf(u, k) ==
  [exists |-> TRUE,
   streaming |-> FALSE,
   thread_auth |-> [endpoint |-> Empty, headers |-> << >>, payload |-> << >>],
   thread_init |-> [endpoint |-> u,
                    headers |-> [ContentType |-> "application/json", xapikey |-> k],
                    payload |-> [input |-> "clear"]],
   chat_completion |-> [endpoint |-> u,
                        headers |-> [ContentType |-> "application/json", xapikey |-> k],
                        payload |-> [input |-> "$PROMPT"]]]

\* C14: when cmd_setup runs (as `setup` or as step 1 of `full`) with both
\* credentials present, it writes bot.json and the content afterwards is the
\* descriptor of the current url and key, whatever the file held before: an
\* existing file is overwritten, and a file that already holds that descriptor
\* is left with the same content.
C14_OverwriteFromCredentials ==
  [][(pc = "setup" /\ ~CredMissing) =>
       /\ file' = DescriptorOf(env.url, env.key)
       /\ trace' = Append(trace, WriteEv)
       /\ pc' # "exit1"]_vars

C14_Witness ==
  /\ argv.command = "full"
  /\ pc = "guard"
  /\ trace = <<WriteEv>>
  /\ file = DescriptorOf(env.url, env.key)
  /\ env.url = 2 /\ env.key = 1

\* C15: an invocation that names bot.json is in flight only while bot.json
\* exists, and none has been started in a run that ended with the credential
\* error of the generation.
C15_DescriptorExistsWhenReferenced ==
  Running =>
     /\ (inflight # NoCmd /\ HasWord(inflight, "bot.json")) => file # NoFile
     /\ (\E i \in DOMAIN trace : Started(i) /\ HasWord(trace[i].cmd, "bot.json")) =>
          (file # NoFile /\ pc # "exit1")
     /\ (\E i \in DOMAIN trace : trace[i] = FatalEv(1)) =>
          \A i \in DOMAIN trace : Started(i) => ~HasWord(trace[i].cmd, "bot.json")

C15_Witness ==
  /\ argv.command = "test"
  /\ pc = "test_run"
  /\ inflight # NoCmd
  /\ HasWord(inflight, "bot.json")
  /\ \E i \in DOMAIN trace : trace[i].ev = "write"
  /\ file = DescriptorOf(env.url, env.key)

\* C16: a step of init, test, status, logs, posture or guardrails never changes
\* an existing bot.json, whatever the exit codes and whatever the current
\* credentials; the content of an existing bot.json changes only in steps of
\* setup and full.
C16_DescriptorImmutable ==
  [][/\ (argv.command \in GuardedSix /\ file # NoFile) => file' = file
     /\ (file # NoFile /\ file' # file) => argv.command \in {"setup", "full"}]_vars

C16_Witness ==
  /\ argv.command = "test"
  /\ pc = "exit0"
  /\ file = DescriptorOf(1, 1)
  /\ env.url = 2 /\ env.key = 2
  /\ \A i \in DOMAIN trace : trace[i].ev # "write"
  /\ \E i \in DOMAIN trace : Ended(i) /\ trace[i].cmd[2] = "test" /\ trace[i].rc # 0

TestStarts == {i \in DOMAIN trace : Started(i) /\ trace[i].cmd[2] = "test"}
WordAfter(c, w) == {c[i + 1] : i \in {j \in DOMAIN c : c[j] = w /\ j < Len(c)}}

\* C17: every test invocation starts `aiandme test -e bot.json -t <category>
\* -l <level> --wait` with one of the four categories and one of the three
\* levels; in `test` the level is the one given (unit if none), the fail-fast
\* option is there exactly when --fail-on was given and carries that value; in
\* `full` the two test invocations have level unit and neither --adaptive nor
\* the fail-fast option.
C17_TestInvocationShape ==
  Running =>
     \A i \in TestStarts :
        LET c == trace[i].cmd IN
        /\ Len(c) >= 9
        /\ c[3] = "-e" /\ c[4] = "bot.json"
        /\ c[5] = "-t"
        /\ c[6] \in {"aiandme/adversarial/owasp_single_turn",
                     "aiandme/adversarial/owasp_multi_turn",
                     "aiandme/adversarial/owasp_agentic_multi_turn",
                     "aiandme/behavioral/behavioral"}
        /\ c[7] = "-l" /\ c[8] \in {"unit", "system", "acceptance"}
        /\ c[9] = "--wait"
        /\ Cardinality({j \in DOMAIN c : c[j] = "-t"}) = 1
        /\ Cardinality({j \in DOMAIN c : c[j] = "-l"}) = 1
        /\ argv.command = "test" =>
             /\ c[8] = (IF argv.level = None THEN "unit" ELSE argv.level)
             /\ HasWord(c, "--fail-on=") <=> (argv.fail_on # None)
             /\ argv.fail_on # None => WordAfter(c, "--fail-on=") = {argv.fail_on}
        /\ argv.command = "full" =>
             /\ Len(c) = 9
             /\ c[8] = "unit"
             /\ ~HasWord(c, "--adaptive")
             /\ ~HasWord(c, "--fail-on=")

C17_Witness ==
  /\ argv.command = "test"
  /\ argv.fail_on = "any"
  /\ argv.level = "acceptance"
  /\ argv.flags = {"adaptive"}
  /\ pc = "exit0"
  /\ \E i \in TestStarts : Len(trace[i].cmd) = 12

\* C18: invocations never overlap: every started invocation is either the
\* last event and the one in flight, or is followed at once by its own
\* completion, and nothing is in flight otherwise; in `full` the single-turn
\* test has completed before the multi-turn test starts and both have
\* completed before posture and logs start.
C18_NoOverlap ==
  Running =>
     /\ \A i \in DOMAIN trace :
          Started(i) =>
             IF i = Len(trace) THEN inflight = trace[i].cmd
             ELSE Ended(i + 1) /\ trace[i + 1].cmd = trace[i].cmd
     /\ (trace = << >> \/ ~Started(Len(trace))) => inflight = NoCmd
     /\ \A i \in DOMAIN trace : Ended(i) => (i > 1 /\ Started(i - 1))
     /\ argv.command = "full" =>
          /\ \A i, j \in DOMAIN trace :
                /\ (Started(j) /\ trace[j].cmd[2] = "test"
                      /\ trace[j].cmd[6] = TEST_CATEGORIES.multi
                      /\ Started(i) /\ trace[i].cmd[2] = "test"
                      /\ trace[i].cmd[6] = TEST_CATEGORIES.single) =>
                     (i + 1 < j /\ Ended(i + 1))
                /\ (Started(j) /\ trace[j].cmd[2] \in {"posture", "logs"}
                      /\ Started(i) /\ trace[i].cmd[2] = "test") =>
                     (i + 1 < j /\ Ended(i + 1))
          /\ (\E k \in DOMAIN trace : Started(k) /\ trace[k].cmd[2] = "posture") =>
               Cardinality({m \in DOMAIN trace : Ended(m) /\ trace[m].cmd[2] = "test"}) = 2

C18_Witness ==
  /\ argv.command = "full"
  /\ pc = "full_logs"
  /\ inflight = <<"aiandme", "logs", "--verdict", "fail">>
  /\ Cardinality({i \in DOMAIN trace : Ended(i)}) = 6
  /\ Cardinality({i \in DOMAIN trace : Started(i)}) = 7

\* C19: in a `test` run, for every combination of the four flags, a test
\* invocation carries --adaptive only if its category is the multi-turn one; a
\* combination of more than one flag is refused when the arguments are parsed
\* and leads to no invocation at all.
C19_AdaptiveOnlyWithMultiTurn ==
  (Running /\ argv.command = "test") =>
     /\ \A i \in TestStarts :
          HasWord(trace[i].cmd, "--adaptive") =>
             trace[i].cmd[6] = "aiandme/adversarial/owasp_multi_turn"
     /\ (inflight # NoCmd /\ HasWord(inflight, "--adaptive")) =>
          inflight[6] = "aiandme/adversarial/owasp_multi_turn"
     /\ Cardinality(argv.flags) > 1 => (NoInvocationYet /\ pc \in {"parse", "exit2"})

C19_Witness ==
  /\ argv.command = "test"
  /\ argv.flags = {"single", "adaptive"}
  /\ argv.level = "system"
  /\ pc = "exit2"
  /\ NoInvocationYet

\* ---- a single process run, under the assumption that every step of the
\* ---- program is taken and every invocation that was started completes
ProgramStep ==
  \/ Parse
  \/ CmdSetup
  \/ ProbeStart
  \/ ProbeComplete
  \/ EnsureBotJson
  \/ TestBuild
  \/ RunStart
  \/ RunComplete

FairSpec == Init /\ [][ProgramStep]_vars /\ WF_vars(ProgramStep)

AllStarts == {i \in DOMAIN trace : Started(i)}

\* C20: every process run that has begun reaches its end, provided every
\* started invocation completes, after at most seven invocations in `full`
\* (whoami, login, init, two tests, posture, logs) and at most three in the
\* other commands (whoami, login, the command's own), none in setup; `full`
\* with both credentials present ends with status 0, after its last step.
C20_Terminates ==
  /\ [](Running =>
          /\ Cardinality(AllStarts) <=
               (CASE argv.command = "full" -> 7
                  [] argv.command = "setup" -> 0
                  [] OTHER -> 3)
          /\ (argv.command = "full" /\ Halted /\ ~CredMissing) =>
               (pc = "exit0" /\ trace[Len(trace)].cmd = <<"aiandme", "logs", "--verdict", "fail">>))
  /\ (pc = "parse") ~> Halted

C20_Witness ==
  /\ argv.command = "full"
  /\ pc = "exit0"
  /\ Cardinality(AllStarts) = 7
  /\ \E i \in DOMAIN trace : Ended(i) /\ IsLogin(i) /\ trace[i].rc # 0
  /\ \E i \in DOMAIN trace : Ended(i) /\ trace[i].cmd[2] = "init" /\ trace[i].rc # 0
====
